---------------------------- MODULE Spec2Model ----------------------------
(***************************************************************************)
(* Model of the autobiography pipeline (autobiography_agents/orchestrator  *)
(* .py) and of the audio chunk splitter (services/audio_transcriber.py).   *)
(*                                                                         *)
(* One pipeline run is one call of run_autobiography_generation.  Its      *)
(* atomic steps are the stretches of code between two awaits: a node       *)
(* issuing its remote call(s), a remote call returning or raising, and the *)
(* code after graph.ainvoke.  Python values are tagged records, so that    *)
(* None, strings, exceptions and pydantic objects can be compared.         *)
(* Remote calls either return an object of the requested schema or raise   *)
(* an Exception (the contract of with_structured_output).                  *)
(***************************************************************************)
EXTENDS Integers, Sequences, FiniteSets, TLC

VARIABLES
    state,              \* AutobiographyState threaded through the graph
    pc,                 \* position of the run
    results,            \* asyncio.gather's result list, by argument position
    integration_input,  \* the request integrate_node built (None before)
    outcome,            \* what run_autobiography_generation did
    entered,            \* history: nodes entered, in order
    issued,             \* history: remote calls issued, in order
    branch,             \* outcome of the i-th of the five gathered calls
    order,              \* history: completion order of the five calls
    failedStep,         \* history: node whose except clause ran
    cause,              \* history: the exception that except clause caught
    duration_ms,        \* _split_audio: len(audio)
    start_ms,           \* _split_audio: start_ms
    chunks,             \* _split_audio: chunks, each <<start, end>>
    split_pc,           \* _split_audio: position
    afile,              \* transcribe: the file each request names
    pydub,              \* PYDUB_AVAILABLE
    nchunks,            \* _transcribe_large_file: len(chunks) of each request
    tpc,                \* transcribe: position of each request
    task,               \* _transcribe_chunk: state of each chunk task
    tresults,           \* asyncio.gather's result list of each request
    tout,               \* what each transcribe call returned or raised
    fs,                 \* .temp_audio/chunk_<i>.mp3: the request that wrote it
    tempdir,            \* .temp_audio: the request that created it
    stt_issued,         \* history: speech-to-text calls issued by each request
    out_of_order,       \* history: a chunk finished before an earlier one
    interfered,         \* history: a request touched another's temporary file
    job_store,          \* routes.job_store: the JobStatus of each job id
    job_pc,             \* process_autobiography_job: position
    polled              \* what the last GET /jobs/{job_id} returned (None before)

pipeVars == <<state, pc, results, integration_input, outcome, entered,
              issued, branch, order, failedStep, cause>>
splitVars == <<duration_ms, start_ms, chunks, split_pc>>
transVars == <<afile, pydub, nchunks, tpc, task, tresults, tout, fs, tempdir,
               stt_issued, out_of_order, interfered>>
jobVars == <<job_store, job_pc, polled>>
vars == <<pipeVars, splitVars, transVars, jobVars>>

---------------------------------------------------------------------------
(* Python values *)

None == [type |-> "None"]
Str(text) == [type |-> "str", text |-> text]
PyException(text) == [type |-> "Exception", text |-> text]
Pending == [type |-> "pending"]

\* str(e)
str(e) == Str(e.text)

\* truth value of an Optional[str]: None and "" are falsy
Truthy(v) == v # None /\ v # Str("")

\* isinstance(result, Exception)
IsException(result) == result.type = "Exception"

\* Texts an exception's str() can have; the empty text is what a bare
\* Exception() or a timeout without message gives.
ErrorTexts == {"", "service error"}

TRANSCRIPT == Str("transcript")

AnalysisResults == {[type |-> "AnalysisResult", author_name |-> "author"]}

\* What the integrator can answer.  The schema bounds neither the number of
\* chapters nor the length of prologue and epilogue: one answer has a chapter
\* per period, the other a single chapter and an empty prologue.
AutobiographyResults ==
    {[type |-> "AutobiographyResult", title |-> "title",
      chapters |-> <<"yunyeongi", "cheongnyeongi", "jungnyeongi", "jangnyeongi",
                     "nonyeongi">>,
      prologue |-> "prologue", epilogue |-> "epilogue"],
     [type |-> "AutobiographyResult", title |-> "title",
      chapters |-> <<"yunyeongi">>,
      prologue |-> "", epilogue |-> "epilogue"]}

chapter_names == <<"childhood", "youth", "middle_age", "mature", "elderly">>
\* the Korean period names, transliterated (the parser reads ASCII only)
display_names == <<"yunyeongi", "cheongnyeongi", "jungnyeongi", "jangnyeongi", "nonyeongi">>
age_ranges == <<"0-12", "13-29", "30-49", "50-64", "65+">>

Periods == DOMAIN chapter_names

\* f"{name}_chapter"
ChapterKey == [n \in {chapter_names[i] : i \in Periods} |->
                CASE n = "childhood" -> "childhood_chapter"
                  [] n = "youth" -> "youth_chapter"
                  [] n = "middle_age" -> "middle_age_chapter"
                  [] n = "mature" -> "mature_chapter"
                  [] n = "elderly" -> "elderly_chapter"]

\* What the agent of period i can answer: a LifeStorySection about its own
\* period, with or without content.
Sections(i) == {[type |-> "LifeStorySection", period |-> display_names[i],
                 has_content |-> b] : b \in BOOLEAN}

initial_state ==
    [transcript |-> TRANSCRIPT,
     analysis |-> None,
     childhood_chapter |-> None,
     youth_chapter |-> None,
     middle_age_chapter |-> None,
     mature_chapter |-> None,
     elderly_chapter |-> None,
     final_autobiography |-> None,
     current_step |-> "analyze",
     error |-> None]

---------------------------------------------------------------------------
(* The graph *)

should_continue(s) ==
    IF Truthy(s.error) THEN "error" ELSE s.current_step

conditional_edgesErrorContinues ==
    [analyze |-> [chapters |-> "write_chapters", error |-> "write_chapters"],
     write_chapters |-> [integrate |-> "integrate", error |-> "integrate"],
     integrate |-> [complete |-> "END", error |-> "END"]]

conditional_edgesRetry ==
    [analyze |-> [chapters |-> "write_chapters", error |-> "END"],
     write_chapters |-> [integrate |-> "integrate", error |-> "END"],
     integrate |-> [complete |-> "END", error |-> "integrate"]]

conditional_edgesStopsAfterAnalysis ==
    [analyze |-> [chapters |-> "END", error |-> "END"],
     write_chapters |-> [integrate |-> "integrate", error |-> "END"],
     integrate |-> [complete |-> "END", error |-> "END"]]

conditional_edges ==
    [analyze |-> [chapters |-> "write_chapters", error |-> "END"],
     write_chapters |-> [integrate |-> "integrate", error |-> "END"],
     integrate |-> [complete |-> "END", error |-> "END"]]

\* the node the graph runs after `node` returned state s
NextNode(node, s) == conditional_edges[node][should_continue(s)]

\* except Exception as e: return {**state, "error": str(e), "current_step": "error"}
ExceptStateFresh(s, e) ==
    [initial_state EXCEPT !.error = str(e), !.current_step = "error"]

ExceptState(s, e) == [s EXCEPT !.error = str(e), !.current_step = "error"]


\* the except clause of a node: the node returns the error state and the
\* graph follows the node's conditional edge
NodeExcept(node, e) ==
    /\ state' = ExceptState(state, e)
    /\ pc' = NextNode(node, state')
    /\ failedStep' = node
    /\ cause' = e

Exceptions == {PyException(t) : t \in ErrorTexts}

---------------------------------------------------------------------------
(* analyze_node *)

\* graph.ainvoke(initial_state) enters analyze_node: create_analyzer_chain()
\* and the analyzer call is awaited, or the chain cannot be created
analyze_node_call ==
    /\ pc = "start"
    /\ entered' = Append(entered, "analyze")
    /\ \/ /\ issued' = Append(issued, "analyzer")
          /\ pc' = "analyze_await"
          /\ UNCHANGED <<state, failedStep, cause>>
       \/ /\ \E e \in Exceptions : NodeExcept("analyze", e)
          /\ UNCHANGED issued
    /\ UNCHANGED <<results, integration_input, outcome, branch, order, splitVars, transVars, jobVars>>

analyze_node_return ==
    /\ pc = "analyze_await"
    /\ \E analysis \in AnalysisResults :
          state' = [state EXCEPT !.analysis = analysis, !.current_step = "chapters"]
    /\ pc' = NextNode("analyze", state')
    /\ UNCHANGED <<results, integration_input, outcome, entered, issued, branch,
                   order, failedStep, cause, splitVars, transVars, jobVars>>

analyze_node_except ==
    /\ pc = "analyze_await"
    /\ \E e \in Exceptions : NodeExcept("analyze", e)
    /\ UNCHANGED <<results, integration_input, outcome, entered, issued, branch,
                   order, splitVars, transVars, jobVars>>

---------------------------------------------------------------------------
(* write_chapters_node *)

\* the calls handed to asyncio.gather, in argument order
gather_calls == chapter_names

\* the five agents are created and their calls handed to asyncio.gather, or
\* an agent cannot be created
write_chapters_node_gather ==
    /\ pc = "write_chapters"
    /\ entered' = Append(entered, "write_chapters")
    /\ \/ /\ issued' = issued \o gather_calls
          /\ results' = [i \in Periods |-> Pending]
          /\ pc' = "gather"
          /\ UNCHANGED <<state, failedStep, cause>>
       \/ /\ \E e \in Exceptions : NodeExcept("write_chapters", e)
          /\ UNCHANGED <<issued, results>>
    /\ UNCHANGED <<integration_input, outcome, branch, order, splitVars, transVars, jobVars>>

\* gather stores a child's outcome at the child's argument position
GatherStoreByCompletion(res, i, o) ==
    LET free == {k \in DOMAIN res : res[k] = Pending}
        k == CHOOSE x \in free : \A y \in free : x <= y
    IN  [res EXCEPT ![k] = o]

GatherStore(res, i, o) == [res EXCEPT ![i] = o]

\* what one period call can raise (the text is only printed)
BranchExceptions == {PyException("service error")}

\* the i-th call returns a section
branch_return(i) ==
    /\ pc = "gather"
    /\ branch[i] = Pending
    /\ \E section \in Sections(i) :
          /\ branch' = [branch EXCEPT ![i] = section]
          /\ results' = GatherStore(results, i, section)
    /\ order' = Append(order, i)
    /\ UNCHANGED <<state, pc, integration_input, outcome, entered, issued,
                   failedStep, cause, splitVars, transVars, jobVars>>

\* the i-th call raises; return_exceptions=True keeps the exception as its result
branch_raise(i) ==
    /\ pc = "gather"
    /\ branch[i] = Pending
    /\ \E e \in BranchExceptions :
          /\ branch' = [branch EXCEPT ![i] = e]
          /\ results' = GatherStore(results, i, e)
    /\ order' = Append(order, i)
    /\ UNCHANGED <<state, pc, integration_input, outcome, entered, issued,
                   failedStep, cause, splitVars, transVars, jobVars>>

\* await asyncio.gather(..., return_exceptions=True) resumes when every child
\* has returned or raised
GatherCompleteFailFast(b) ==
    \/ \E i \in Periods : IsException(b[i])
    \/ \A i \in Periods : b[i] # Pending

GatherComplete(b) == \A i \in Periods : b[i] # Pending

\* chapters[f"{name}_chapter"] = None if isinstance(result, Exception) else result
ChapterOf(result) == IF IsException(result) THEN None ELSE result

\* the state write_chapters_node returns: {**state, **chapters, "current_step": "integrate"}
WriteChaptersReturnFailing(s, res) ==
    IF \E i \in Periods : IsException(res[i])
    THEN ExceptState(s, CHOOSE e \in {res[i] : i \in Periods} : IsException(e))
    ELSE [k \in DOMAIN s |->
            IF k = "current_step" THEN "integrate"
            ELSE IF \E i \in Periods : ChapterKey[chapter_names[i]] = k
                 THEN res[CHOOSE i \in Periods : ChapterKey[chapter_names[i]] = k]
                 ELSE s[k]]

WriteChaptersReturnDropsAnalysis(s, res) ==
    [k \in DOMAIN s |->
        IF k = "current_step" THEN "integrate"
        ELSE IF k = "analysis" THEN None
        ELSE IF \E i \in Periods : ChapterKey[chapter_names[i]] = k
             THEN ChapterOf(res[CHOOSE i \in Periods : ChapterKey[chapter_names[i]] = k])
             ELSE s[k]]

WriteChaptersReturn(s, res) ==
    [k \in DOMAIN s |->
        IF k = "current_step" THEN "integrate"
        ELSE IF \E i \in Periods : ChapterKey[chapter_names[i]] = k
             THEN ChapterOf(res[CHOOSE i \in Periods : ChapterKey[chapter_names[i]] = k])
             ELSE s[k]]

\* the gather is over: the results are zipped with the names and the node returns
write_chapters_node_collect ==
    /\ pc = "gather"
    /\ GatherComplete(branch)
    /\ state' = WriteChaptersReturn(state, results)
    /\ pc' = NextNode("write_chapters", state')
    /\ UNCHANGED <<results, integration_input, outcome, entered, issued, branch,
                   order, failedStep, cause, splitVars, transVars, jobVars>>

---------------------------------------------------------------------------
(* integrate_node *)

\* chapter_data: (period, age range, state.get("<name>_chapter")) per period
chapter_data(s) ==
    <<<<display_names[1], age_ranges[1], s.childhood_chapter>>,
      <<display_names[2], age_ranges[2], s.youth_chapter>>,
      <<display_names[3], age_ranges[3], s.middle_age_chapter>>,
      <<display_names[4], age_ranges[4], s.mature_chapter>>,
      <<display_names[5], age_ranges[5], s.elderly_chapter>>>>

\* one element of chapters_info: the section's text when the chapter is
\* there and has content, the "information is lacking" text otherwise
ChapterEntryAnyChapter(period, age_range, chapter) ==
    IF chapter # None
    THEN [period |-> period, age_range |-> age_range, kind |-> "section",
          chapter |-> chapter]
    ELSE [period |-> period, age_range |-> age_range, kind |-> "insufficient"]

ChapterEntry(period, age_range, chapter) ==
    IF chapter # None /\ chapter.has_content
    THEN [period |-> period, age_range |-> age_range, kind |-> "section",
          chapter |-> chapter]
    ELSE [period |-> period, age_range |-> age_range, kind |-> "insufficient"]

\* for period, age_range, chapter in chapter_data: chapters_info.append(...)
RECURSIVE AppendPresent(_, _)
AppendPresent(data, info) ==
    IF data = <<>> THEN info
    ELSE LET d == Head(data)
         IN  AppendPresent(Tail(data),
                 IF d[3] # None
                 THEN Append(info, ChapterEntry(d[1], d[2], d[3]))
                 ELSE info)

ChaptersInfoPresentOnly(s) == AppendPresent(chapter_data(s), <<>>)

RECURSIVE AppendAll(_, _)
AppendAll(data, info) ==
    IF data = <<>> THEN info
    ELSE LET d == Head(data)
         IN  AppendAll(Tail(data), Append(info, ChapterEntry(d[1], d[2], d[3])))

ChaptersInfo(s) == AppendAll(chapter_data(s), <<>>)

\* integration_input: the author part from the analysis, then chapters_info
IntegrationInput(s) == [analysis |-> s.analysis, chapters_info |-> ChaptersInfo(s)]

\* the request is built, then create_integrator_chain() and the integrator
\* call is awaited, or the chain cannot be created
integrate_node_call ==
    /\ pc = "integrate"
    /\ entered' = Append(entered, "integrate")
    /\ integration_input' = IntegrationInput(state)
    /\ \/ /\ issued' = Append(issued, "integrator")
          /\ pc' = "integrate_await"
          /\ UNCHANGED <<state, failedStep, cause>>
       \/ /\ \E e \in Exceptions : NodeExcept("integrate", e)
          /\ UNCHANGED issued
    /\ UNCHANGED <<results, outcome, branch, order, splitVars, transVars, jobVars>>

integrate_node_return ==
    /\ pc = "integrate_await"
    /\ \E result \in AutobiographyResults :
          state' = [state EXCEPT !.final_autobiography = result,
                                 !.current_step = "complete"]
    /\ pc' = NextNode("integrate", state')
    /\ UNCHANGED <<results, integration_input, outcome, entered, issued, branch,
                   order, failedStep, cause, splitVars, transVars, jobVars>>

integrate_node_except ==
    /\ pc = "integrate_await"
    /\ \E e \in Exceptions : NodeExcept("integrate", e)
    /\ UNCHANGED <<results, integration_input, outcome, entered, issued, branch,
                   order, splitVars, transVars, jobVars>>

---------------------------------------------------------------------------
(* run_autobiography_generation, after graph.ainvoke *)

\* the fixed Korean prefix of the raised message ("error during generation: ")
ERROR_PREFIX == "autobiography generation error: "

\* f"<prefix>{final_state['error']}", as its two parts
RaisedMessageNoCause(error) == <<ERROR_PREFIX>>

RaisedMessage(error) == <<ERROR_PREFIX, error.text>>

\* return final_state["final_autobiography"]
ReturnedValueAnalysis(final_state) == final_state.analysis

ReturnedValue(final_state) == final_state.final_autobiography

Running == [kind |-> "running"]

run_finish ==
    /\ pc = "END"
    /\ outcome' = IF Truthy(state.error)
                  THEN [kind |-> "raised", message |-> RaisedMessage(state.error)]
                  ELSE [kind |-> "returned", value |-> ReturnedValue(state)]
    /\ pc' = "done"
    /\ UNCHANGED <<state, results, integration_input, entered, issued, branch,
                   order, failedStep, cause, splitVars, transVars, jobVars>>

---------------------------------------------------------------------------
(* Specification of one pipeline run *)

NoStep == "none"

PipelineInit ==
    /\ state = initial_state
    /\ pc = "start"
    /\ results = <<>>
    /\ integration_input = None
    /\ outcome = Running
    /\ entered = <<>>
    /\ issued = <<>>
    /\ branch = [i \in Periods |-> Pending]
    /\ order = <<>>
    /\ failedStep = NoStep
    /\ cause = None

SplitIdle ==
    /\ duration_ms = 0
    /\ start_ms = 0
    /\ chunks = <<>>
    /\ split_pc = "idle"

\* no transcription request
TransIdle ==
    /\ afile = <<>>
    /\ pydub = FALSE
    /\ nchunks = <<>>
    /\ tpc = <<>>
    /\ task = <<>>
    /\ tresults = <<>>
    /\ tout = <<>>
    /\ fs = <<>>
    /\ tempdir = "nobody"
    /\ stt_issued = <<>>
    /\ out_of_order = <<>>
    /\ interfered = FALSE

\* no background job
JobIdle ==
    /\ job_store = <<>>
    /\ job_pc = "none"
    /\ polled = None

Init == PipelineInit /\ SplitIdle /\ TransIdle /\ JobIdle

Next ==
    \/ analyze_node_call
    \/ analyze_node_return
    \/ analyze_node_except
    \/ write_chapters_node_gather
    \/ \E i \in Periods : branch_return(i)
    \/ \E i \in Periods : branch_raise(i)
    \/ write_chapters_node_collect
    \/ integrate_node_call
    \/ integrate_node_return
    \/ integrate_node_except
    \/ run_finish

Spec == Init /\ [][Next]_vars

\* The event loop resumes every coroutine that is ready, and every remote
\* call eventually returns or fails: a step that stays possible is taken.
LiveSpec == Spec /\ WF_vars(Next)

---------------------------------------------------------------------------
(* AudioTranscriber._split_audio *)

MAX_CHUNK_DURATION_MS == 10 * 60 * 1000
OVERLAP_MS == 5000

MaxDurationUnits == 260

\* audio lengths tried: around every multiple of the overlap up to the bound
DurationOffsets == {0, 1, OVERLAP_MS - 1}
Durations == {u * OVERLAP_MS + r : u \in 0..MaxDurationUnits, r \in DurationOffsets}

Min(a, b) == IF a <= b THEN a ELSE b

\* if duration_ms <= self.MAX_CHUNK_DURATION_MS
FitsSingleChunkDropped(d) == FALSE

FitsSingleChunk(d) == d <= MAX_CHUNK_DURATION_MS

\* [audio]: the whole audio as the only chunk
WholeAudio(d) == <<0, d>>

\* end_ms = min(start_ms + self.MAX_CHUNK_DURATION_MS, duration_ms)
ChunkEndUnclipped(start, d) == start + MAX_CHUNK_DURATION_MS

ChunkEnd(start, d) == Min(start + MAX_CHUNK_DURATION_MS, d)

\* start_ms = end_ms - self.OVERLAP_MS
NextStartNoOverlap(end) == end

NextStartStuck(end) == end - MAX_CHUNK_DURATION_MS

NextStart(end) == end - OVERLAP_MS

\* if duration_ms - start_ms < self.OVERLAP_MS * 2: break
TailTooShortByOneOverlap(d, start) == d - start <= OVERLAP_MS

TailTooShort(d, start) == d - start < OVERLAP_MS * 2

\* the call: the early return, or the loop is set up
split_audio_entry ==
    /\ split_pc = "call"
    /\ IF FitsSingleChunk(duration_ms)
       THEN /\ chunks' = <<WholeAudio(duration_ms)>>
            /\ split_pc' = "returned"
            /\ UNCHANGED start_ms
       ELSE /\ chunks' = <<>>
            /\ start_ms' = 0
            /\ split_pc' = "loop"
    /\ UNCHANGED <<duration_ms, pipeVars, transVars, jobVars>>

\* the while test and one pass of the loop body
split_audio_loop ==
    /\ split_pc = "loop"
    /\ IF start_ms < duration_ms
       THEN LET end_ms == ChunkEnd(start_ms, duration_ms)
            IN  /\ chunks' = Append(chunks, <<start_ms, end_ms>>)
                /\ start_ms' = NextStart(end_ms)
                /\ split_pc' = IF TailTooShort(duration_ms, start_ms')
                               THEN "returned" ELSE "loop"
       ELSE /\ split_pc' = "returned"
            /\ UNCHANGED <<chunks, start_ms>>
    /\ UNCHANGED <<duration_ms, pipeVars, transVars, jobVars>>

SplitInit ==
    /\ PipelineInit
    /\ TransIdle
    /\ JobIdle
    /\ duration_ms \in Durations
    /\ start_ms = 0
    /\ chunks = <<>>
    /\ split_pc = "call"

SplitNext ==
    \/ split_audio_entry
    \/ split_audio_loop

SplitSpec == SplitInit /\ [][SplitNext]_vars

\* _split_audio has no await: once called it runs on
SplitLiveSpec == SplitSpec /\ WF_vars(SplitNext)

---------------------------------------------------------------------------
(* AudioTranscriber.transcribe *)

(***************************************************************************)
(* A request is one call of AudioTranscriber.transcribe; requests run on   *)
(* one event loop and share the file system.  A step is the code between   *)
(* two awaits.  chunk.export() and open() are synchronous, so the tasks    *)
(* asyncio.gather created export their files and issue their calls one      *)
(* after the other, before the awaiting request can resume.  Files are     *)
(* removed as on POSIX: unlink and rmtree remove a file that is still open. *)
(***************************************************************************)

SUPPORTED_FORMATS == {".mp3", ".mp4", ".mpeg", ".mpga", ".m4a", ".wav", ".webm",
                      ".ogg", ".flac"}

\* suffixes of the files tried
Suffixes == {".mp3", ".WAV", ".txt", ""}

\* path.suffix.lower()
lower(suffix) == IF suffix = ".WAV" THEN ".wav" ELSE suffix

\* an audio file as transcribe sees it: large is st_size over 25 MB
AudioFiles == [exists : BOOLEAN, suffix : Suffixes, large : BOOLEAN]

MaxChunks == 3
ConcurrentChunks == 2

Nobody == "nobody"

\* _validate_file: the exception it raises, None when it returns the path
_validate_fileAnySuffix(f) ==
    IF ~f.exists THEN PyException("FileNotFoundError") ELSE None

_validate_file(f) ==
    IF ~f.exists THEN PyException("FileNotFoundError")
    ELSE IF lower(f.suffix) \notin SUPPORTED_FORMATS THEN PyException("ValueError")
    ELSE None

\* if file_size_mb > 25 and PYDUB_AVAILABLE
UsesChunks(f) == f.large /\ pydub

\* temp_dir.mkdir(exist_ok=True)
Mkdir(dir, r) == IF dir = Nobody THEN r ELSE dir

\* the text the service answers for a chunk file: that of the audio written
\* into the file
TextOf(owner, i) == [of |-> owner, chunk |-> i]

PARAGRAPH_BREAK == [sep |-> "paragraph"]

\* "\n\n".join(results)
RECURSIVE Join(_)
Join(texts) ==
    IF texts = <<>> THEN <<>>
    ELSE IF Len(texts) = 1 THEN <<texts[1]>>
    ELSE <<texts[1], PARAGRAPH_BREAK>> \o Join(Tail(texts))

\* transcribe up to its first await: validation, then the single call is
\* issued, or the audio is split, .temp_audio made and the chunk tasks handed
\* to asyncio.gather
transcribe_call(r) ==
    /\ tpc[r] = "request"
    /\ LET error == _validate_file(afile[r])
       IN  IF error # None
           THEN /\ tpc' = [tpc EXCEPT ![r] = "raised"]
                /\ tout' = [tout EXCEPT ![r] = error]
                /\ UNCHANGED <<task, tresults, tempdir, stt_issued>>
           ELSE IF UsesChunks(afile[r])
           THEN /\ tempdir' = Mkdir(tempdir, r)
                /\ task' = [task EXCEPT ![r] = [i \in 1..nchunks[r] |-> "scheduled"]]
                /\ tresults' = [tresults EXCEPT ![r] = [i \in 1..nchunks[r] |-> Pending]]
                /\ tpc' = [tpc EXCEPT ![r] = "gather"]
                /\ UNCHANGED <<tout, stt_issued>>
           ELSE /\ stt_issued' = [stt_issued EXCEPT ![r] = @ + 1]
                /\ tpc' = [tpc EXCEPT ![r] = "single_await"]
                /\ UNCHANGED <<task, tresults, tempdir, tout>>
    /\ UNCHANGED <<afile, pydub, nchunks, fs, out_of_order, interfered,
                   pipeVars, splitVars, jobVars>>

\* _transcribe_single_file: the call returns
single_return(r) ==
    /\ tpc[r] = "single_await"
    /\ tpc' = [tpc EXCEPT ![r] = "returned"]
    /\ tout' = [tout EXCEPT ![r] = <<TextOf(r, 0)>>]
    /\ UNCHANGED <<afile, pydub, nchunks, task, tresults, fs, tempdir, stt_issued,
                   out_of_order, interfered, pipeVars, splitVars, jobVars>>

\* _transcribe_single_file: the call raises
single_raise(r) ==
    /\ tpc[r] = "single_await"
    /\ tpc' = [tpc EXCEPT ![r] = "raised"]
    /\ tout' = [tout EXCEPT ![r] = PyException("service error")]
    /\ UNCHANGED <<afile, pydub, nchunks, task, tresults, fs, tempdir, stt_issued,
                   out_of_order, interfered, pipeVars, splitVars, jobVars>>

\* what chunk.export can do: write the file, fail before creating it, or
\* fail with the file created; without the directory it can only fail
ExportOutcomes(dir) ==
    IF dir = Nobody THEN {"fail"} ELSE {"ok", "fail", "fail_partial"}

Count(f, v) == Cardinality({i \in DOMAIN f : f[i] = v})

\* the first step of every chunk task of a request, in index order:
\* chunk.export(temp_file), then open(temp_file) and the call is awaited
chunk_tasks_start(r) ==
    /\ tpc[r] = "gather"
    /\ \A i \in DOMAIN task[r] : task[r][i] = "scheduled"
    /\ \E export \in [DOMAIN task[r] -> ExportOutcomes(tempdir)] :
          /\ fs' = [i \in DOMAIN fs |->
                      IF i \in DOMAIN export /\ export[i] # "fail" THEN r ELSE fs[i]]
          /\ task' = [task EXCEPT ![r] =
                        [i \in DOMAIN export |->
                           IF export[i] = "ok" THEN "in_flight" ELSE "export_failed"]]
          /\ stt_issued' = [stt_issued EXCEPT ![r] = @ + Count(export, "ok")]
          /\ interfered' = (interfered \/
                \E i \in DOMAIN export : export[i] # "fail" /\ fs[i] \notin {Nobody, r})
    /\ UNCHANGED <<afile, pydub, nchunks, tpc, tresults, tout, tempdir,
                   out_of_order, pipeVars, splitVars, jobVars>>

\* finally: if temp_file.exists(): temp_file.unlink()
Unlink(files, i) == [files EXCEPT ![i] = Nobody]

\* gather stores a task's result at the task's position
TaskStoreByCompletion(res, i, text) ==
    LET free == {k \in DOMAIN res : res[k] = Pending}
        k == CHOOSE x \in free : \A y \in free : x <= y
    IN  [res EXCEPT ![k] = text]

TaskStore(res, i, text) == [res EXCEPT ![i] = text]

\* the call of chunk i returns its text; the task removes its file and ends
chunk_return(r, i) ==
    /\ i \in DOMAIN task[r]
    /\ task[r][i] = "in_flight"
    /\ task' = [task EXCEPT ![r][i] = "done"]
    /\ tresults' = [tresults EXCEPT ![r] = TaskStore(@, i, TextOf(r, i))]
    /\ fs' = Unlink(fs, i)
    /\ interfered' = (interfered \/ fs[i] \notin {Nobody, r})
    /\ out_of_order' = [out_of_order EXCEPT ![r] =
                          @ \/ \E j \in DOMAIN task[r] : j < i /\ task[r][j] = "in_flight"]
    /\ UNCHANGED <<afile, pydub, nchunks, tpc, tout, tempdir, stt_issued,
                   pipeVars, splitVars, jobVars>>

\* the call of chunk i raises; the task removes its file and ends
chunk_raise(r, i) ==
    /\ i \in DOMAIN task[r]
    /\ task[r][i] = "in_flight"
    /\ task' = [task EXCEPT ![r][i] = "call_failed"]
    /\ fs' = Unlink(fs, i)
    /\ interfered' = (interfered \/ fs[i] \notin {Nobody, r})
    /\ UNCHANGED <<afile, pydub, nchunks, tpc, tresults, tout, tempdir, stt_issued,
                   out_of_order, pipeVars, splitVars, jobVars>>

TaskFailed(st) == st \in {"export_failed", "call_failed"}

\* await asyncio.gather(*tasks) resumes with the first exception of a task,
\* or with the results when every task is done
GatherResumes(tasks) ==
    \/ \E i \in DOMAIN tasks : TaskFailed(tasks[i])
    \/ \A i \in DOMAIN tasks : tasks[i] = "done"

\* shutil.rmtree(temp_dir, ignore_errors=True)
RmTreeKeepsFiles(files) == files

RmTree(files) == [i \in DOMAIN files |-> Nobody]

\* _transcribe_large_file after the gather: the joined text is returned or
\* the exception goes on, and the finally clause removes .temp_audio
large_finish(r) ==
    /\ tpc[r] = "gather"
    /\ \A i \in DOMAIN task[r] : task[r][i] # "scheduled"
    /\ GatherResumes(task[r])
    /\ IF \E i \in DOMAIN task[r] : TaskFailed(task[r][i])
       THEN /\ tpc' = [tpc EXCEPT ![r] = "raised"]
            /\ tout' = [tout EXCEPT ![r] = PyException("chunk failed")]
       ELSE /\ tpc' = [tpc EXCEPT ![r] = "returned"]
            /\ tout' = [tout EXCEPT ![r] = Join(tresults[r])]
    /\ IF tempdir # Nobody
       THEN /\ fs' = RmTree(fs)
            /\ tempdir' = Nobody
            /\ interfered' = (interfered \/ tempdir # r
                                \/ \E i \in DOMAIN fs : fs[i] \notin {Nobody, r})
       ELSE UNCHANGED <<fs, tempdir, interfered>>
    /\ UNCHANGED <<afile, pydub, nchunks, task, tresults, stt_issued, out_of_order,
                   pipeVars, splitVars, jobVars>>

\* the requests of a run, each with its file and, for a chunked one, the
\* number of chunks _split_audio gives
TransInit(requests, files, maxchunks) ==
    /\ afile \in [requests -> files]
    /\ pydub \in BOOLEAN
    /\ nchunks \in [requests -> 1..maxchunks]
    /\ tpc = [r \in requests |-> "request"]
    /\ task = [r \in requests |-> <<>>]
    /\ tresults = [r \in requests |-> <<>>]
    /\ tout = [r \in requests |-> None]
    /\ fs = [i \in 1..maxchunks |-> Nobody]
    /\ tempdir = Nobody
    /\ stt_issued = [r \in requests |-> 0]
    /\ out_of_order = [r \in requests |-> FALSE]
    /\ interfered = FALSE

\* one request, any file
TranscribeInit ==
    /\ PipelineInit
    /\ SplitIdle
    /\ TransInit({"r1"}, AudioFiles, MaxChunks)
    /\ JobIdle

TranscribeNext ==
    \/ \E r \in DOMAIN tpc : transcribe_call(r)
    \/ \E r \in DOMAIN tpc : single_return(r)
    \/ \E r \in DOMAIN tpc : single_raise(r)
    \/ \E r \in DOMAIN tpc : chunk_tasks_start(r)
    \/ \E r \in DOMAIN tpc, i \in DOMAIN fs : chunk_return(r, i)
    \/ \E r \in DOMAIN tpc, i \in DOMAIN fs : chunk_raise(r, i)
    \/ \E r \in DOMAIN tpc : large_finish(r)

TranscribeSpec == TranscribeInit /\ [][TranscribeNext]_vars

\* the files of two requests that both take the chunked path
LargeAudioFiles == {f \in AudioFiles : f.exists /\ f.suffix = ".mp3" /\ f.large}

\* two requests at once, both chunked, their files in the same directory
ConcurrentInit ==
    /\ PipelineInit
    /\ SplitIdle
    /\ TransInit({"r1", "r2"}, LargeAudioFiles, ConcurrentChunks)
    /\ JobIdle
    /\ pydub

ConcurrentNext ==
    \/ \E r \in DOMAIN tpc : transcribe_call(r)
    \/ \E r \in DOMAIN tpc : chunk_tasks_start(r)
    \/ \E r \in DOMAIN tpc, i \in DOMAIN fs : chunk_return(r, i)
    \/ \E r \in DOMAIN tpc, i \in DOMAIN fs : chunk_raise(r, i)
    \/ \E r \in DOMAIN tpc : large_finish(r)

ConcurrentSpec == ConcurrentInit /\ [][ConcurrentNext]_vars

---------------------------------------------------------------------------
(* routes: the background job and its status poll *)

(* generate_autobiography_async stores a pending JobStatus and schedules    *)
(* process_autobiography_job, a coroutine whose only await is the call of   *)
(* run_autobiography_generation.  get_job_status is a coroutine without an  *)
(* await.  Both run on one event loop, so a poll runs only while the job is *)
(* not yet started, suspended at its await, or over.                        *)

JobIds == {"j1"}

\* JobStatus(status="pending", progress=0, result=None, error=None)
PendingJob == [status |-> "pending", progress |-> 0, result |-> None, error |-> None]

\* status = "processing"; progress = 10
Processing(rec) == [rec EXCEPT !.status = "processing", !.progress = 10]

\* status = "completed"; progress = 100
Completed(rec) == [rec EXCEPT !.status = "completed", !.progress = 100]

\* ChapterResponse(period=ch.period, ..., age_range=None) for ch in result.chapters
ChapterResponses(result) ==
    [k \in DOMAIN result.chapters |-> [period |-> result.chapters[k], age_range |-> None]]

\* AutobiographyResponse(success=True, title=result.title, ...): reading an
\* attribute of None raises AttributeError
AutobiographyResponse(result) ==
    IF result = None
    THEN PyException("'NoneType' object has no attribute 'title'")
    ELSE [type |-> "AutobiographyResponse", success |-> TRUE,
          title |-> result.title, prologue |-> result.prologue,
          chapters |-> ChapterResponses(result), epilogue |-> result.epilogue]

\* .result = AutobiographyResponse(...)
WithResult(rec, response) == [rec EXCEPT !.result = response]

\* except Exception as e: status = "failed"; error = str(e)
JobExcept(rec, e) == [rec EXCEPT !.status = "failed", !.error = str(e)]

\* the exception run_autobiography_generation raised
RaisedException(o) == PyException(o.message)

\* the event loop can run another coroutine: the job has not started, is
\* suspended at `await run_autobiography_generation(transcript)`, or is over
SuspendedAnywhere(p) == TRUE

Suspended(p) == p \in {"scheduled", "awaiting", "over"}

\* the job starts: processing, then run_autobiography_generation is awaited
job_start(j) ==
    /\ job_pc = "scheduled"
    /\ job_store' = [job_store EXCEPT ![j] = Processing(@)]
    /\ job_pc' = "awaiting"
    /\ pc' = "start"
    /\ UNCHANGED <<state, results, integration_input, outcome, entered, issued,
                   branch, order, failedStep, cause, polled, splitVars, transVars>>

\* the await is over: the except clause if the run raised, else the chapters
\* are converted and the job is marked completed
job_resume(j) ==
    /\ job_pc = "awaiting"
    /\ pc = "done"
    /\ IF outcome.kind = "raised"
       THEN /\ job_store' = [job_store EXCEPT ![j] = JobExcept(@, RaisedException(outcome))]
            /\ job_pc' = "over"
       ELSE /\ job_store' = [job_store EXCEPT ![j] = Completed(@)]
            /\ job_pc' = "marked"
    /\ UNCHANGED <<pipeVars, polled, splitVars, transVars>>

\* the response is built and stored, or building it raises and the except
\* clause runs; no await since job_resume
job_store_result(j) ==
    /\ job_pc = "marked"
    /\ LET response == AutobiographyResponse(outcome.value)
       IN  job_store' = [job_store EXCEPT ![j] =
                            IF IsException(response) THEN JobExcept(@, response)
                            ELSE WithResult(@, response)]
    /\ job_pc' = "over"
    /\ UNCHANGED <<pipeVars, polled, splitVars, transVars>>

\* GET /jobs/{job_id}: return job_store[job_id]
get_job_status(j) ==
    /\ Suspended(job_pc)
    /\ j \in DOMAIN job_store
    /\ polled' = job_store[j]
    /\ UNCHANGED <<job_store, job_pc, pipeVars, splitVars, transVars>>

\* generate_autobiography_async has stored the pending job and scheduled
\* the task; the pipeline run has not begun
JobInit ==
    /\ state = initial_state
    /\ pc = "idle"
    /\ results = <<>>
    /\ integration_input = None
    /\ outcome = Running
    /\ entered = <<>>
    /\ issued = <<>>
    /\ branch = [i \in Periods |-> Pending]
    /\ order = <<>>
    /\ failedStep = NoStep
    /\ cause = None
    /\ SplitIdle
    /\ TransIdle
    /\ job_store = [j \in JobIds |-> PendingJob]
    /\ job_pc = "scheduled"
    /\ polled = None

JobNext ==
    \/ \E j \in JobIds : job_start(j)
    \/ Next
    \/ \E j \in JobIds : job_resume(j)
    \/ \E j \in JobIds : job_store_result(j)
    \/ \E j \in JobIds : get_job_status(j)

JobSpec == JobInit /\ [][JobNext]_vars

---------------------------------------------------------------------------
(* Properties of a pipeline run *)

StageOrder == <<"analyze", "write_chapters", "integrate">>

IsPrefix(a, b) == Len(a) <= Len(b) /\ \A k \in 1..Len(a) : a[k] = b[k]

Terminal == pc \in {"END", "done"}

Slot(i) == state[ChapterKey[chapter_names[i]]]

\* write_chapters_node has gathered its five calls and returned
Collected == results # <<>> /\ pc \in {"integrate", "integrate_await", "END", "done"}

Failed(i) == branch[i].type = "Exception"

\* C1: the stages run in the order analyze, write_chapters, integrate,
\* complete.  The nodes entered are always a prefix of that order (none
\* twice, none skipped); a node is running only while error is unset; once a
\* node has failed it is the last node entered and the run is at its terminal
\* error state; a run that ends without a failure went through all three
\* stages and stands at complete.
C1_StagesInFixedOrder ==
    /\ IsPrefix(entered, StageOrder)
    /\ ~Terminal => state.error = None /\ failedStep = NoStep
    /\ pc \in {"write_chapters", "gather"} =>
          state.current_step = "chapters" /\ state.analysis # None
    /\ pc \in {"integrate", "integrate_await"} =>
          state.current_step = "integrate" /\ Len(entered) >= 2
    /\ failedStep # NoStep =>
          /\ Terminal
          /\ entered # <<>>
          /\ entered[Len(entered)] = failedStep
          /\ state.current_step = "error"
    /\ Terminal /\ failedStep = NoStep =>
          entered = StageOrder /\ state.current_step = "complete"

C1_Witness ==
    /\ pc = "done"
    /\ entered = StageOrder
    /\ state.current_step = "complete"

Issued(call) == \E k \in DOMAIN issued : issued[k] = call

\* the analyzer call was issued and raised
AnalysisCallFailed == failedStep = "analyze" /\ Issued("analyzer")

\* the integrator call was issued and raised
IntegrationCallFailed == failedStep = "integrate" /\ Issued("integrator")

\* C2: if the analysis call fails, no period call and no integration call is
\* ever issued, and run_autobiography_generation ends by raising one error
\* that carries the analysis error.
C2_AnalysisFailureFailsFast ==
    AnalysisCallFailed =>
        /\ issued = <<"analyzer">>
        /\ pc = "done" =>
              /\ outcome.kind = "raised"
              /\ \E k \in DOMAIN outcome.message : outcome.message[k] = cause.text

\* C3: branch failures never fail the extraction stage: once the five calls
\* are over, whichever of them raised, the stage has returned with
\* current_step integrate and error unset, no failure is recorded for it, and
\* the integration stage is the next to run or has been entered.
C3_ExtractionSurvivesBranchFailures ==
    /\ Collected =>
          /\ failedStep # "write_chapters"
          /\ pc = "integrate" \/ (Len(entered) = 3 /\ entered[3] = "integrate")
    /\ pc = "integrate" =>
          state.current_step = "integrate" /\ state.error = None

C3_Witness ==
    /\ \A i \in Periods : Failed(i)
    /\ Len(entered) = 3
    /\ integration_input # None

\* C4: whatever the completion order, the outcome of the i-th issued call is
\* the i-th result of the gather and, once collected, the content of the i-th
\* period slot: a section is stored in the slot of the agent that produced it.
C4_ResultsKeepTheirPosition ==
    /\ pc = "gather" =>
          \A i \in Periods : results[i] = branch[i]
    /\ Collected =>
          \A i \in Periods :
             /\ ~Failed(i) => Slot(i) = branch[i]
             /\ Slot(i) # None => Slot(i).period = display_names[i]

C4_Witness ==
    /\ Collected
    /\ order = <<5, 3, 1, 4, 2>>
    /\ \A i \in Periods : ~Failed(i) /\ Slot(i) = branch[i]

\* C5: when a branch fails, its slot is null, no other branch is cancelled
\* (all five have run to completion when the stage returns) and every other
\* slot holds exactly what its own branch returned.
C5_FailureIsolation ==
    Collected =>
        \A i \in Periods :
           /\ branch[i] # Pending
           /\ Failed(i) => Slot(i) = None
           /\ ~Failed(i) => Slot(i) = branch[i] /\ Slot(i) \in Sections(i)

C5_Witness ==
    /\ Collected
    /\ order[1] = 3
    /\ Failed(3) /\ Slot(3) = None
    /\ \A i \in Periods \ {3} : ~Failed(i) /\ Slot(i) = branch[i]

\* C6: the integration request always has exactly five period entries, in
\* the order childhood, youth, middle age, mature, elderly, whatever the slots hold.
C6_FivePeriodEntriesInOrder ==
    integration_input # None =>
        /\ Len(integration_input.chapters_info) = 5
        /\ \A i \in Periods :
              /\ integration_input.chapters_info[i].period = display_names[i]
              /\ integration_input.chapters_info[i].age_range = age_ranges[i]

C6_Witness ==
    /\ integration_input # None
    /\ state.childhood_chapter = None
    /\ state.youth_chapter # None /\ ~state.youth_chapter.has_content
    /\ state.middle_age_chapter # None /\ state.middle_age_chapter.has_content

\* C7: run_autobiography_generation returns only from the non-error terminal
\* state: after a failure of analysis or integration it raises, whatever the
\* error text, and a returned value is the result the integrator produced.
C7_ReturnsOnlyWithoutError ==
    pc = "done" =>
        /\ AnalysisCallFailed \/ IntegrationCallFailed => outcome.kind = "raised"
        /\ outcome.kind = "returned" => outcome.value \in AutobiographyResults

StepNames == {"analyze", "analysis", "write_chapters", "chapters", "integrate",
              "integration"}

IdentifiesStep(message) == \E k \in DOMAIN message : message[k] \in StepNames

IdentifiesCause(message) == \E k \in DOMAIN message : message[k] = cause.text

AllWithContent == \A i \in Periods : ~Failed(i) /\ branch[i].has_content

\* a run in which no step failed and every period call answered with content
FullRunOver == pc = "done" /\ failedStep = NoStep /\ AllWithContent

\* C15 as stated: a run in which every call succeeds and all five sections
\* have content returns a result with five chapters, one per period, and a
\* non-empty prologue and epilogue.
C15_FiveChaptersReturned ==
    FullRunOver =>
        /\ outcome.kind = "returned"
        /\ outcome.value.chapters = display_names
        /\ outcome.value.prologue # ""
        /\ outcome.value.epilogue # ""

\* C15 amended: such a run returns, unchanged, the AutobiographyResult the
\* integration call answered to a request that holds the full section of
\* each of the five periods; nothing checks its chapters, prologue or epilogue.
C15_IntegratorAnswerReturned ==
    FullRunOver =>
        /\ outcome.kind = "returned"
        /\ outcome.value \in AutobiographyResults
        /\ outcome.value = state.final_autobiography
        /\ \A i \in Periods :
              /\ integration_input.chapters_info[i].kind = "section"
              /\ integration_input.chapters_info[i].chapter = branch[i]

C15_Witness ==
    /\ FullRunOver
    /\ outcome.kind = "returned"
    /\ Len(outcome.value.chapters) = 5

\* the text that stands for a period without information
Marker(i) == [period |-> display_names[i], age_range |-> age_ranges[i],
              kind |-> "insufficient"]

\* C16: the entry of a period in the integration request is its full section
\* exactly when the slot is non-null and has_content is true; in every other
\* case it is the same marker, so a failed branch and a section without
\* content give the same request.
C16_SectionOrMarker ==
    integration_input # None =>
        \A i \in Periods :
           LET entry == integration_input.chapters_info[i]
           IN  IF Slot(i) # None /\ Slot(i).has_content
               THEN /\ entry.kind = "section"
                    /\ entry.chapter = Slot(i)
                    /\ entry.period = display_names[i]
               ELSE entry = Marker(i)

C16_Witness ==
    /\ integration_input # None
    /\ Failed(1)
    /\ ~Failed(2) /\ ~branch[2].has_content
    /\ integration_input.chapters_info[1].kind = "insufficient"
    /\ integration_input.chapters_info[2].kind = "insufficient"
    /\ integration_input.chapters_info[3].kind = "section"

TimesIssued(call) == Cardinality({k \in DOMAIN issued : issued[k] = call})

TextGenerationCalls == {"analyzer", "integrator"} \cup {chapter_names[i] : i \in Periods}

\* C19: no text-generation call is retried: in a run the analyzer call, each
\* of the five period calls and the integrator call are issued at most once,
\* whether they succeed or fail.
C19_NoCallIssuedTwice ==
    /\ \A call \in TextGenerationCalls : TimesIssued(call) <= 1
    /\ \A k \in DOMAIN issued : issued[k] \in TextGenerationCalls

C19_Witness ==
    /\ pc = "done"
    /\ IntegrationCallFailed
    /\ \E i \in Periods : Failed(i)
    /\ \A call \in TextGenerationCalls : TimesIssued(call) = 1

SlotKeys == {ChapterKey[chapter_names[i]] : i \in Periods}

\* the fields of the state a failing step must leave as it received them
KeptOnFailure == DOMAIN initial_state \ {"error", "current_step"}

\* C21: a step whose work raises returns a state with error set (the text of
\* the exception) and current_step = "error", every other field as in the
\* state the step received, and the graph goes on to its end: the failure
\* does not escape to the driver.
C21_FailureBecomesErrorState ==
    [][failedStep' # failedStep =>
          /\ failedStep' \in {"analyze", "write_chapters", "integrate"}
          /\ state'.error # None
          /\ state'.error = str(cause')
          /\ state'.current_step = "error"
          /\ \A k \in KeptOnFailure : state'[k] = state[k]
          /\ pc' = "END"]_vars

C21_Witness ==
    /\ failedStep = "integrate"
    /\ state.current_step = "error"
    /\ state.error = Str("service error")
    /\ state.analysis \in AnalysisResults
    /\ \E i \in Periods : Slot(i) # None
    /\ \E i \in Periods : Slot(i) = None

\* C22: the transcript is the same in every state of a run; the analysis
\* result is written only by the analysis stage, while it is still unset; the
\* five period slots are written only by write_chapters_node; the final
\* result only by the integrate stage.
C22_NoStageChangesEarlierOutput ==
    /\ [](state.transcript = TRANSCRIPT)
    /\ [][/\ state'.analysis # state.analysis =>
                pc = "analyze_await" /\ state.analysis = None
          /\ (\E k \in SlotKeys : state'[k] # state[k]) =>
                pc = "gather"
          /\ state'.final_autobiography # state.final_autobiography =>
                pc = "integrate_await"]_vars

C22_Witness ==
    /\ pc = "done"
    /\ state.transcript = TRANSCRIPT
    /\ state.analysis \in AnalysisResults
    /\ \A i \in Periods : Slot(i) # None
    /\ state.final_autobiography \in AutobiographyResults

\* C25: every run reaches a terminal state, in which current_step is complete
\* or error; at most three stages are ever entered; and once the terminal
\* state is reached no stage is entered, no call is issued and the state
\* record does not change.
C25_RunTerminates ==
    /\ <>(pc = "done")
    /\ [](Terminal => state.current_step \in {"complete", "error"})
    /\ [](Len(entered) <= 3)
    /\ [][Terminal => /\ entered' = entered
                      /\ issued' = issued
                      /\ state' = state
                      /\ Terminal']_vars

C25_Witness ==
    /\ pc = "done"
    /\ Len(entered) = 3
    /\ state.current_step = "complete"

---------------------------------------------------------------------------
(* Properties of the splitter *)

\* C9: 1,260,000 ms with chunks of at most 600,000 ms and 5,000 ms overlap
\* gives exactly [0,600000), [595000,1195000), [1190000,1260000), in order.
C9_TwentyOneMinutes ==
    /\ MAX_CHUNK_DURATION_MS = 600000
    /\ OVERLAP_MS = 5000
    /\ split_pc = "returned" /\ duration_ms = 1260000 =>
          chunks = <<<<0, 600000>>, <<595000, 1195000>>, <<1190000, 1260000>>>>

C9_Witness ==
    /\ split_pc = "returned"
    /\ duration_ms = 1260000
    /\ Len(chunks) = 3

\* C10: a duration of at most the maximum chunk length gives exactly one
\* chunk, [0, duration).
C10_ShortAudioIsOneChunk ==
    split_pc = "returned" /\ duration_ms <= MAX_CHUNK_DURATION_MS =>
        chunks = <<<<0, duration_ms>>>>

C10_Witness ==
    /\ split_pc = "returned"
    /\ duration_ms = MAX_CHUNK_DURATION_MS
    /\ chunks = <<<<0, MAX_CHUNK_DURATION_MS>>>>

ChunkLength(k) == chunks[k][2] - chunks[k][1]

\* C17: for a duration above the maximum chunk length, the first chunk
\* starts at 0, every chunk ends at min(start + maximum, duration) and so is
\* at most the maximum long, and every later chunk starts one overlap before
\* the end of the chunk before it.
C17_ChunkBounds ==
    duration_ms > MAX_CHUNK_DURATION_MS /\ chunks # <<>> =>
        /\ chunks[1][1] = 0
        /\ \A k \in DOMAIN chunks :
              /\ chunks[k][2] = IF chunks[k][1] + MAX_CHUNK_DURATION_MS <= duration_ms
                                THEN chunks[k][1] + MAX_CHUNK_DURATION_MS
                                ELSE duration_ms
              /\ ChunkLength(k) <= MAX_CHUNK_DURATION_MS
              /\ k > 1 => chunks[k][1] = chunks[k - 1][2] - OVERLAP_MS

C17_Witness ==
    /\ split_pc = "returned"
    /\ duration_ms > 2 * MAX_CHUNK_DURATION_MS
    /\ duration_ms % OVERLAP_MS = 1
    /\ Len(chunks) = 3
    /\ chunks[3][2] = duration_ms

\* C18: with the maximum chunk length at least twice the overlap, a result of
\* more than one chunk has no chunk shorter than twice the overlap.
C18_NoMicroChunk ==
    /\ MAX_CHUNK_DURATION_MS >= 2 * OVERLAP_MS
    /\ split_pc = "returned" /\ Len(chunks) > 1 =>
          \A k \in DOMAIN chunks : ChunkLength(k) >= 2 * OVERLAP_MS

C18_Witness ==
    /\ split_pc = "returned"
    /\ Len(chunks) = 2
    /\ ChunkLength(2) = 2 * OVERLAP_MS

\* C23: the chunks returned cover the whole audio: the first starts at 0,
\* the last ends at the duration and no chunk starts after the end of the
\* chunk before it.
C23_ChunksCoverTheAudio ==
    split_pc = "returned" =>
        /\ chunks # <<>>
        /\ chunks[1][1] = 0
        /\ chunks[Len(chunks)][2] = duration_ms
        /\ \A k \in DOMAIN chunks : k > 1 => chunks[k][1] <= chunks[k - 1][2]

Ceiling(a, b) == (a + b - 1) \div b

\* the while loop appends a chunk and moves the start
Iteration == split_pc = "loop" /\ chunks' # chunks

\* C24 as stated: with the overlap smaller than the maximum chunk length the
\* splitter returns for every duration, the start grows on every iteration
\* and there are at most ceiling(duration / (maximum - overlap)) chunks.
C24_SplitterTerminates ==
    /\ OVERLAP_MS < MAX_CHUNK_DURATION_MS
    /\ <>(split_pc = "returned")
    /\ [][Iteration => start_ms' > start_ms]_vars
    /\ [](split_pc = "returned" =>
            Len(chunks) <= Ceiling(duration_ms, MAX_CHUNK_DURATION_MS - OVERLAP_MS))

\* C24 amended: the same, with one chunk allowed for a duration of 0, for
\* which the whole (empty) audio is returned as the only chunk.
C24_SplitterTerminatesOneChunkAtLeast ==
    /\ OVERLAP_MS < MAX_CHUNK_DURATION_MS
    /\ <>(split_pc = "returned")
    /\ [][Iteration => start_ms' > start_ms]_vars
    /\ [](split_pc = "returned" =>
            \/ Len(chunks) <= Ceiling(duration_ms, MAX_CHUNK_DURATION_MS - OVERLAP_MS)
            \/ duration_ms = 0 /\ chunks = <<<<0, 0>>>>)

C24_Witness ==
    /\ split_pc = "returned"
    /\ Len(chunks) = 3
    /\ Len(chunks) = Ceiling(duration_ms, MAX_CHUNK_DURATION_MS - OVERLAP_MS)
    /\ start_ms > chunks[3][1]

---------------------------------------------------------------------------
(* Properties of the background job *)

FinalStatuses == {"completed", "failed"}

Consistent(rec) ==
    /\ rec.status = "completed" =>
          rec.result # None /\ rec.error = None /\ rec.progress = 100
    /\ rec.status = "failed" =>
          rec.error # None /\ rec.result = None

\* C26: wherever a poll can run, the job record is consistent (completed:
\* result set, error null, progress 100; failed: error set, result null), so
\* is every answer a poll got, and a status of completed or failed is never
\* followed by another status, in the record at such points or in the answers.
C26_PollSeesConsistentJob ==
    /\ [](Suspended(job_pc) => \A j \in DOMAIN job_store : Consistent(job_store[j]))
    /\ [](polled # None => Consistent(polled))
    /\ [][polled # None /\ polled.status \in FinalStatuses =>
             polled'.status = polled.status]_vars
    /\ [][\A j \in DOMAIN job_store :
             Suspended(job_pc) /\ job_store[j].status \in FinalStatuses =>
                job_store'[j].status = job_store[j].status]_vars

\* a poll answered with the failed record of a job that had been marked
\* completed before its response could be built
C26_Witness ==
    /\ job_pc = "over"
    /\ polled = job_store["j1"]
    /\ polled.status = "failed"
    /\ polled.progress = 100
    /\ polled.error # None

---------------------------------------------------------------------------
(* Properties of transcription *)

Chunked(r) == task[r] # <<>>

Over(r) == tpc[r] \in {"returned", "raised"}

\* C11: a chunked transcription that returns gives the texts of its chunks
\* in chunk index order, a paragraph break between two of them, whatever the
\* order in which the chunk calls finished.
C11_TranscriptInChunkOrder ==
    \A r \in DOMAIN tpc :
       Chunked(r) /\ tpc[r] = "returned" =>
          /\ Len(tout[r]) = 2 * nchunks[r] - 1
          /\ \A i \in 1..nchunks[r] : tout[r][2 * i - 1] = [of |-> r, chunk |-> i]
          /\ \A i \in 1..(nchunks[r] - 1) : tout[r][2 * i] = PARAGRAPH_BREAK

C11_Witness ==
    /\ tpc["r1"] = "returned"
    /\ nchunks["r1"] = 3
    /\ out_of_order["r1"]
    /\ Len(tout["r1"]) = 5

C13_RequestsKeepToTheirOwnFiles == ~interfered

Invalid(f) == ~f.exists \/ lower(f.suffix) \notin SUPPORTED_FORMATS

\* C14: a request for a missing file or an unsupported extension fails at
\* once: it raises, it issues no speech-to-text call, it creates no chunk
\* task, no chunk file and no temporary directory, and it is not run again.
C14_InvalidFileFailsAtOnce ==
    \A r \in DOMAIN tpc :
       Invalid(afile[r]) /\ tpc[r] # "request" =>
          /\ tpc[r] = "raised"
          /\ tout[r] \in {PyException("FileNotFoundError"), PyException("ValueError")}
          /\ stt_issued[r] = 0
          /\ task[r] = <<>>
          /\ tempdir = Nobody
          /\ \A i \in DOMAIN fs : fs[i] = Nobody

C14_Witness ==
    /\ tpc["r1"] = "raised"
    /\ afile["r1"].exists
    /\ afile["r1"].suffix = ".txt"
    /\ afile["r1"].large
    /\ stt_issued["r1"] = 0

\* C20: a chunked transcription has neither returned nor raised, nor removed
\* its temporary directory, while one of its chunk calls is in flight.
C20_SuspendedUntilAllChunksOver ==
    \A r \in DOMAIN tpc :
       Over(r) => \A i \in DOMAIN task[r] : task[r][i] # "in_flight"

===========================================================================
